---- MODULE Spec2Model ----
(***************************************************************************)
(* A model of the Gamma template backend (src/main.py): the PPTX text      *)
(* extractor, the three Gamma API wrappers and the HTTP routes built on    *)
(* them.  Text is modelled as a sequence of one-character strings, so that *)
(* joining, stripping, splitting and extension handling are computed the   *)
(* way the Python code computes them.                                      *)
(***************************************************************************)
EXTENDS Integers, Sequences, FiniteSets, TLC

VARIABLES
    GAMMA_API_KEY,        \* os.getenv("GAMMA_API_KEY")
    GAMMA_TEMPLATE_ID,    \* os.getenv("GAMMA_TEMPLATE_ID")
    GAMMA_EXPORT_FORMAT,  \* os.getenv("GAMMA_EXPORT_AS", "pdf")
    pc,                   \* "idle": waiting for a request, "done": a request was answered
    request,              \* the request being answered
    net,                  \* the outbound HTTP calls the handler issued, in order
    response,             \* the HTTP response of the handler
    file_bytes,           \* input of extract_ppt_structure_and_text
    parsed,               \* its return value (or the exception it raised)
    probes                \* the status probes a polling client has received so far

vars == <<GAMMA_API_KEY, GAMMA_TEMPLATE_ID, GAMMA_EXPORT_FORMAT, pc, request,
          net, response, file_bytes, parsed, probes>>

(***************************************************************************)
(* Bounds of the model.                                                    *)
(***************************************************************************)
MaxSlides == 2    \* slides of a document
MaxShapes == 3    \* shapes of a document, over all its slides
MaxProbes == 3

(***************************************************************************)
(* Python values.                                                          *)
(***************************************************************************)
\* A string is a sequence of one-character strings; None and a missing dict key
\* are sequences of one token that no text contains.
NoneVal  == <<"<None>">>    \* Python None / JSON null
Absent   == <<"<absent>">>  \* a key that is not in a dict
EmptyStr == <<>>            \* ""

\* dict.get(key): None for a missing key
Get(v) == IF v = Absent THEN NoneVal ELSE v

\* Python truthiness of a string-or-None value: None and "" are falsy.
Truthy(v) == v /= NoneVal /\ v /= Absent /\ v /= EmptyStr

(***************************************************************************)
(* Text helpers: str.join, str.strip, str.split, str(int).                 *)
(***************************************************************************)
Whitespace == {" ", "\t", "\n", "\r", "\f"}

RECURSIVE Join(_, _)
Join(sep, parts) ==
    IF Len(parts) = 0 THEN <<>>
    ELSE IF Len(parts) = 1 THEN parts[1]
    ELSE parts[1] \o sep \o Join(sep, Tail(parts))

RECURSIVE LStrip(_)
LStrip(s) ==
    IF Len(s) > 0 /\ s[1] \in Whitespace THEN LStrip(Tail(s)) ELSE s

RECURSIVE RStrip(_)
RStrip(s) ==
    IF Len(s) > 0 /\ s[Len(s)] \in Whitespace
    THEN RStrip(SubSeq(s, 1, Len(s) - 1))
    ELSE s

Strip(s) == RStrip(LStrip(s))

EndsWith(s, p) ==
    Len(s) >= Len(p) /\ SubSeq(s, Len(s) - Len(p) + 1, Len(s)) = p

\* str.find: the first position at which sep occurs in s, 0 when it does not.
RECURSIVE FindFrom(_, _, _)
FindFrom(s, sep, i) ==
    IF i + Len(sep) - 1 > Len(s) THEN 0
    ELSE IF SubSeq(s, i, i + Len(sep) - 1) = sep THEN i
    ELSE FindFrom(s, sep, i + 1)

\* str.split(sep): cut at each occurrence, scanning left to right.
RECURSIVE Split(_, _)
Split(s, sep) ==
    LET i == FindFrom(s, sep, 1)
    IN  IF i = 0 THEN <<s>>
        ELSE <<SubSeq(s, 1, i - 1)>> \o Split(SubSeq(s, i + Len(sep), Len(s)), sep)

Digit == <<"0", "1", "2", "3", "4", "5", "6", "7", "8", "9">>

\* str(n) for n >= 0
RECURSIVE IntToStr(_)
IntToStr(n) ==
    IF n < 10 THEN <<Digit[n + 1]>>
    ELSE IntToStr(n \div 10) \o <<Digit[(n % 10) + 1]>>

(***************************************************************************)
(* extract_ppt_structure_and_text                                          *)
(***************************************************************************)
SlideHeader == <<"S", "l", "i", "d", "e", " ">>                 \* "Slide "
HeaderEnd   == <<":", "\n">>                                    \* ":\n"
NoContent   == <<"(", "N", "o", " ", "v", "i", "s", "i", "b", "l", "e", " ",
                 "t", "e", "x", "t", " ", "c", "o", "n", "t", "e", "n", "t", ")">>
Newline     == <<"\n">>
Delimiter   == <<"\n", "-", "-", "-", "\n">>                    \* "\n---\n"

\* The shapes of the bounded documents: a picture (no text frame), a text box
\* holding only blank paragraphs, a text box of three paragraphs the middle one
\* empty, and a text box whose only paragraph is a rule of dashes.
Picture   == [has_text_frame |-> FALSE, paragraphs |-> <<>>]
TextBox(ps) == [has_text_frame |-> TRUE, paragraphs |-> ps]
ShapeChoices ==
    { Picture,
      TextBox(<< <<" ">>, <<>> >>),
      TextBox(<< <<" ", "a">>, <<>>, <<"b", " ">> >>),
      TextBox(<< <<"-", "-", "-">> >>) }

\* The documents of exactly n slides holding at most k shapes in all.
RECURSIVE DocumentsOf(_, _)
DocumentsOf(n, k) ==
    IF n = 0 THEN {<<>>}
    ELSE UNION { { <<slide>> \o rest : slide \in [1..j -> ShapeChoices],
                                       rest \in DocumentsOf(n - 1, k - j) }
                 : j \in 0..k }

Documents == UNION { DocumentsOf(n, MaxShapes) : n \in 0..MaxSlides }
\* An upload: the bytes of a pptx container holding the slides, or other bytes.
Pptx(slides) == [container |-> TRUE, slides |-> slides]
Malformed    == [container |-> FALSE, slides |-> <<>>]
Uploads      == {Pptx(d) : d \in Documents} \cup {Malformed}

\* line 43: Presentation(BytesIO(file_bytes)) raises on anything but a pptx container.
OpensAsPresentation(bytes) == bytes.container

\* lines 55-58: the text of one shape
ShapeText(shape) ==
    IF shape.has_text_frame
    THEN LET paragraphs == SelectSeq(shape.paragraphs, LAMBDA p : p /= EmptyStr)
         IN  Strip(Join(Newline, paragraphs))
    ELSE EmptyStr

\* lines 54-62: slide_text_lines, the non-empty shape texts in shape order
SlideTextLines(slide) ==
    LET texts == [i \in 1..Len(slide) |-> ShapeText(slide[i])]
    IN  SelectSeq(texts, LAMBDA t : t /= EmptyStr)

\* lines 64-69: the slides_data entry of the idx-th slide
SlideEntry(idx, slide) ==
    LET lines == SlideTextLines(slide)
    IN  [index |-> idx, shapes |-> [i \in 1..Len(lines) |-> [text |-> lines[i]]]]

\* lines 71-74: the outline part of the idx-th slide
OutlinePart(idx, slide) ==
    LET slide_text_lines == SlideTextLines(slide)
    IN  IF slide_text_lines /= <<>>
        THEN SlideHeader \o IntToStr(idx) \o HeaderEnd \o Join(Newline, slide_text_lines)
        ELSE SlideHeader \o IntToStr(idx) \o HeaderEnd \o NoContent

\* A variant that appends an entry only for a slide that has text.
SlidesDataSkippingEmpty(prs) ==
    SelectSeq([idx \in 1..Len(prs) |-> SlideEntry(idx, prs[idx])],
              LAMBDA entry : entry.shapes /= <<>>)

\* lines 50, 64: enumerate(prs.slides, start=1), one entry appended per slide
SlidesData(prs) == [idx \in 1..Len(prs) |-> SlideEntry(idx, prs[idx])]

\* lines 50, 71-76
OutlineText(prs) ==
    Join(Delimiter, [idx \in 1..Len(prs) |-> OutlinePart(idx, prs[idx])])

\* The function's outcome: the dict it returns, or the HTTPException it raises.
extract_ppt_structure_and_text(bytes) ==
    IF ~OpensAsPresentation(bytes)
    THEN [raised |-> TRUE, status_code |-> 400, slides |-> <<>>, outline_text |-> <<>>]
    ELSE [raised |-> FALSE, status_code |-> 200,
          slides |-> SlidesData(bytes.slides),
          outline_text |-> OutlineText(bytes.slides)]

NoRequest  == [op |-> "none"]
NoResponse == [status_code |-> 0]
NotParsed == [raised |-> FALSE, status_code |-> 0, slides |-> <<>>, outline_text |-> <<>>]

InitExtract ==
    /\ GAMMA_API_KEY = NoneVal
    /\ GAMMA_TEMPLATE_ID = NoneVal
    /\ GAMMA_EXPORT_FORMAT = <<"p", "d", "f">>
    /\ pc = "idle"
    /\ request = NoRequest
    /\ net = <<>>
    /\ response = NoResponse
    /\ file_bytes \in Uploads
    /\ parsed = NotParsed
    /\ probes = <<>>

Extract ==
    /\ pc = "idle"
    /\ pc' = "done"
    /\ parsed' = extract_ppt_structure_and_text(file_bytes)
    /\ UNCHANGED <<GAMMA_API_KEY, GAMMA_TEMPLATE_ID, GAMMA_EXPORT_FORMAT, request,
                   net, response, file_bytes, probes>>

NextExtract == Extract

SpecExtract == InitExtract /\ [][NextExtract]_vars

(***************************************************************************)
(* Configuration and HTTP values.                                          *)
(***************************************************************************)
Str_pdf  == <<"p", "d", "f">>
Str_pptx == <<"p", "p", "t", "x">>
Str_PDF  == <<"P", "D", "F">>

ApiKey     == <<"<api key>">>
TemplateId == <<"<template id>">>

\* What the environment may hold: unset, set to "", or set to a value.
ApiKeyChoices     == {NoneVal, EmptyStr, ApiKey}
TemplateIdChoices == {NoneVal, TemplateId}
FormatChoices     == {Str_pdf, Str_pptx, Str_PDF}

UpperCase == <<"A", "B", "C", "D", "E", "F", "G", "H", "I", "J", "K", "L", "M",
               "N", "O", "P", "Q", "R", "S", "T", "U", "V", "W", "X", "Y", "Z">>
LowerCase == <<"a", "b", "c", "d", "e", "f", "g", "h", "i", "j", "k", "l", "m",
               "n", "o", "p", "q", "r", "s", "t", "u", "v", "w", "x", "y", "z">>

\* str.lower
Lower(s) ==
    [i \in 1..Len(s) |->
        IF \E k \in 1..Len(UpperCase) : UpperCase[k] = s[i]
        THEN LowerCase[CHOOSE k \in 1..Len(UpperCase) : UpperCase[k] = s[i]]
        ELSE s[i]]

\* The outcome of one requests call: the exception it raised, or the response.
\* A body is its raw text, whether resp.json() parses it, whether the parsed
\* value is a dict, and that dict.
NetworkError == [raised |-> TRUE, status_code |-> 0,
                 text |-> EmptyStr, json |-> FALSE, is_dict |-> FALSE]
HttpText(code, text) ==
    [raised |-> FALSE, status_code |-> code, text |-> text, json |-> FALSE, is_dict |-> FALSE]
HttpJsonList(code) ==
    [raised |-> FALSE, status_code |-> code, text |-> <<"[]">>, json |-> TRUE, is_dict |-> FALSE]
HttpJsonDict(code, text, data) ==
    [raised |-> FALSE, status_code |-> code, text |-> text, json |-> TRUE, is_dict |-> TRUE,
     data |-> data]

\* A variant that accepts status 200 alone.
OkOnly200(resp) == resp.status_code = 200

\* lines 133, 179, 238: requests' Response.ok is false exactly for 4xx and 5xx.
Ok(resp) == ~(resp.status_code >= 400 /\ resp.status_code < 600)

\* An HTTPException, and the 500 FastAPI answers for any other exception.
HTTPException(code, msg, arg) ==
    [kind |-> "error", status_code |-> code, detail |-> [msg |-> msg, arg |-> arg]]
InternalServerError == HTTPException(500, "Internal Server Error", EmptyStr)
JSONResponse(body) == [kind |-> "json", status_code |-> 200, body |-> body]

(***************************************************************************)
(* call_gamma_from_template                                                *)
(***************************************************************************)
CreateUrl == <<"https://public-api.gamma.app/v1.0/generations/from-template">>
GenId     == <<"<generation id>">>
HtmlText  == <<"<html>upstream error</html>">>

CreateBodies(code) ==
    { HttpText(code, HtmlText),
      HttpJsonList(code),
      HttpJsonDict(code, <<"{generationId: id}">>, [generationId |-> GenId]),
      HttpJsonDict(code, <<"{generationId: ''}">>, [generationId |-> EmptyStr]),
      HttpJsonDict(code, <<"{message: m}">>, [generationId |-> Absent]) }

CreateOutcomes ==
    {NetworkError} \cup UNION { CreateBodies(code) : code \in {200, 201, 302, 400, 503} }

\* A variant that does not look at the template identifier.
TemplateIdNotChecked == FALSE

\* line 98
TemplateIdMissing == ~Truthy(GAMMA_TEMPLATE_ID)

\* The call's outcome under the given upstream outcome: the requests it sent, and
\* either the generationId it returns or the exception it raises.  The payload's
\* optional themeId and folderIds are left out: nothing reads them back.
call_gamma_from_template(prompt_text, outcome) ==
    LET sent == << [method |-> "POST", url |-> CreateUrl,
                    payload |-> [gammaId |-> GAMMA_TEMPLATE_ID, prompt |-> prompt_text,
                                 exportAs |-> GAMMA_EXPORT_FORMAT],
                    api_key |-> GAMMA_API_KEY, outcome |-> outcome] >>
        Raise(n, e) == [net |-> n, raised |-> TRUE, error |-> e, value |-> NoneVal]
    IN  IF ~Truthy(GAMMA_API_KEY)
        THEN Raise(<<>>, HTTPException(500, "GAMMA_API_KEY is not set in environment variables.", EmptyStr))
        ELSE IF TemplateIdMissing
        THEN Raise(<<>>, HTTPException(500, "GAMMA_TEMPLATE_ID is not set in environment variables.", EmptyStr))
        ELSE IF outcome.raised
        THEN Raise(sent, HTTPException(502, "Failed to call Gamma: ", EmptyStr))
        ELSE IF ~Ok(outcome)
        THEN Raise(sent, HTTPException(outcome.status_code,
                                       "Gamma create-from-template error: ", outcome.text))
        ELSE IF ~outcome.json
        THEN Raise(sent, HTTPException(500, "Gamma response is not valid JSON: ", outcome.text))
        ELSE IF ~outcome.is_dict
        THEN Raise(sent, InternalServerError)          \* data.get: AttributeError
        ELSE IF ~Truthy(Get(outcome.data.generationId))
        THEN Raise(sent, HTTPException(500, "Gamma did not return generationId. Raw response: ",
                                       outcome.text))
        ELSE [net |-> sent, raised |-> FALSE, error |-> InternalServerError,
              value |-> outcome.data.generationId]

(***************************************************************************)
(* The upload routes: /api/parse_ppt and /api/beautify_start               *)
(***************************************************************************)
DotPptx == <<".", "p", "p", "t", "x">>
FilenameChoices ==
    { <<"d", ".", "p", "p", "t", "x">>,
      <<"D", ".", "P", "P", "T", "X">>,
      <<"d", ".", "p", "d", "f">> }

\* The uploads the routes are exercised with: other bytes, an empty deck, and a
\* deck of two slides the first without text.
SampleUploads ==
    { Malformed,
      Pptx(<<>>),
      Pptx(<< <<Picture>>, <<TextBox(<< <<"a">>, <<"b">> >>)>> >>) }

\* lines 259, 273
IsPptxName(filename) == EndsWith(Lower(filename), DotPptx)

OnlyPptx == HTTPException(400, "Only .pptx files are supported", EmptyStr)
BadPptx  == HTTPException(400, "Failed to open PPTX: ", EmptyStr)

\* lines 283-322: the fixed instructions followed by the outline text
Prompt(outline_text) == [instructions |-> "You are an expert presentation designer. ...",
                         outline_text |-> outline_text]

Served(n, resp) == [net |-> n, response |-> resp]

\* /health
HealthCheck == Served(<<>>, JSONResponse([status |-> "ok"]))

\* lines 254-265
ParsePpt(filename, file) ==
    LET result == extract_ppt_structure_and_text(file)
    IN  IF ~IsPptxName(filename) THEN Served(<<>>, OnlyPptx)
        ELSE IF result.raised THEN Served(<<>>, BadPptx)
        ELSE Served(<<>>, JSONResponse([slides |-> result.slides]))

\* lines 268-327
BeautifyStart(filename, file, outcome) ==
    LET parsed_ == extract_ppt_structure_and_text(file)
        created == call_gamma_from_template(Prompt(parsed_.outline_text), outcome)
    IN  IF ~IsPptxName(filename) THEN Served(<<>>, OnlyPptx)
        ELSE IF parsed_.raised THEN Served(<<>>, BadPptx)
        ELSE IF created.raised THEN Served(created.net, created.error)
        ELSE Served(created.net, JSONResponse([generationId |-> created.value]))

\* lines 385-390
BeautifyLegacy ==
    Served(<<>>, HTTPException(410, "Deprecated endpoint. Please use /api/beautify_start + /api/beautify_status + /api/beautify_result.", EmptyStr))

Unserved == <<GAMMA_API_KEY, GAMMA_TEMPLATE_ID, GAMMA_EXPORT_FORMAT, file_bytes, parsed, probes>>

health_check ==
    /\ pc = "idle"
    /\ pc' = "done"
    /\ request' = [op |-> "health"]
    /\ net' = HealthCheck.net
    /\ response' = HealthCheck.response
    /\ UNCHANGED Unserved

parse_ppt ==
    /\ pc = "idle"
    /\ \E filename \in FilenameChoices, file \in SampleUploads :
          /\ request' = [op |-> "parse_ppt", filename |-> filename, file |-> file]
          /\ LET served == ParsePpt(filename, file)
             IN  net' = served.net /\ response' = served.response
    /\ pc' = "done"
    /\ UNCHANGED Unserved

beautify_start ==
    /\ pc = "idle"
    /\ \E filename \in FilenameChoices, file \in SampleUploads, outcome \in CreateOutcomes :
          /\ request' = [op |-> "beautify_start", filename |-> filename, file |-> file]
          /\ LET served == BeautifyStart(filename, file, outcome)
             IN  net' = served.net /\ response' = served.response
    /\ pc' = "done"
    /\ UNCHANGED Unserved

beautify_legacy ==
    /\ pc = "idle"
    /\ pc' = "done"
    /\ request' = [op |-> "beautify"]
    /\ net' = BeautifyLegacy.net
    /\ response' = BeautifyLegacy.response
    /\ UNCHANGED Unserved

(***************************************************************************)
(* get_gamma_generation                                                    *)
(***************************************************************************)
StatusUrl(generation_id) == <<"https://public-api.gamma.app/v1.0/generations/">> \o generation_id

Pending   == <<"pending">>
Completed == <<"completed">>
Failed    == <<"failed">>
Queued    == <<"queued">>       \* a token the service does not know
Unknown   == <<"unknown">>
GammaUrl  == <<"https://gamma.app/docs/d">>

\* The value of fileUrls / files: missing, a dict of format to URL, or a JSON
\* value that is not a dict (a non-empty list).
NoMap == [kind |-> "absent", pdf |-> Absent, pptx |-> Absent, other |-> Absent]
Dict(pdf, pptx, other) == [kind |-> "dict", pdf |-> pdf, pptx |-> pptx, other |-> other]
NonDict == [kind |-> "list", pdf |-> Absent, pptx |-> Absent, other |-> Absent]

ExportUrl   == <<"https://assets/export">>
MapPdfUrl   == <<"https://assets/fileUrls/pdf">>
MapPptxUrl  == <<"https://assets/fileUrls/pptx">>
MapOtherUrl == <<"https://assets/fileUrls/png">>
FilesPdfUrl == <<"https://assets/files/pdf">>
FlatPdfUrl  == <<"https://assets/pdfUrl">>
FlatPptxUrl == <<"https://assets/pptxUrl">>

FileUrlsChoices ==
    { NoMap, NonDict,
      Dict(Absent, Absent, Absent),
      Dict(MapPdfUrl, Absent, Absent),
      Dict(Absent, MapPptxUrl, Absent),
      Dict(MapPdfUrl, MapPptxUrl, Absent),
      Dict(Absent, Absent, MapOtherUrl) }
FilesChoices == { NoMap, Dict(FilesPdfUrl, Absent, Absent) }

\* The generation records the upstream may answer a status fetch with.
GammaRecords ==
    [ status    : {Absent, NoneVal, Pending, Completed, Failed, Queued},
      gammaUrl  : {Absent, GammaUrl},
      exportUrl : {Absent, EmptyStr, ExportUrl},
      fileUrls  : FileUrlsChoices,
      files     : FilesChoices,
      pdfUrl    : {Absent, FlatPdfUrl},
      pptxUrl   : {Absent, FlatPptxUrl} ]

RecordText == <<"<generation json>">>

StatusOutcomes ==
    { NetworkError, HttpText(404, HtmlText), HttpText(200, HtmlText), HttpJsonList(200) }
        \cup { HttpJsonDict(200, RecordText, r) : r \in GammaRecords }

StatusFetch(generation_id, outcome) ==
    [method |-> "GET", url |-> StatusUrl(generation_id), api_key |-> GAMMA_API_KEY,
     outcome |-> outcome]

\* A variant that fetches a second time when the first fetch raised.
get_gamma_generation_retrying(generation_id, outcome) ==
    LET sent == << StatusFetch(generation_id, outcome) >>
        Raise(n, e) == [net |-> n, raised |-> TRUE, error |-> e, data |-> outcome]
    IN  IF ~Truthy(GAMMA_API_KEY)
        THEN Raise(<<>>, HTTPException(500, "GAMMA_API_KEY is not set in environment variables.", EmptyStr))
        ELSE IF outcome.raised
        THEN Raise(sent \o sent, HTTPException(502, "Failed to poll Gamma: ", EmptyStr))
        ELSE IF ~Ok(outcome)
        THEN Raise(sent, HTTPException(outcome.status_code, "Gamma status error: ", outcome.text))
        ELSE IF ~outcome.json
        THEN Raise(sent, HTTPException(500, "Gamma status is not valid JSON: ", outcome.text))
        ELSE [net |-> sent, raised |-> FALSE, error |-> InternalServerError, data |-> outcome]

\* lines 157-193: the requests it sent, and the parsed body it returns or the
\* exception it raises.
get_gamma_generation(generation_id, outcome) ==
    LET sent == << StatusFetch(generation_id, outcome) >>
        Raise(n, e) == [net |-> n, raised |-> TRUE, error |-> e, data |-> outcome]
    IN  IF ~Truthy(GAMMA_API_KEY)
        THEN Raise(<<>>, HTTPException(500, "GAMMA_API_KEY is not set in environment variables.", EmptyStr))
        ELSE IF outcome.raised
        THEN Raise(sent, HTTPException(502, "Failed to poll Gamma: ", EmptyStr))
        ELSE IF ~Ok(outcome)
        THEN Raise(sent, HTTPException(outcome.status_code, "Gamma status error: ", outcome.text))
        ELSE IF ~outcome.json
        THEN Raise(sent, HTTPException(500, "Gamma status is not valid JSON: ", outcome.text))
        ELSE [net |-> sent, raised |-> FALSE, error |-> InternalServerError, data |-> outcome]

(***************************************************************************)
(* download_gamma_file                                                     *)
(***************************************************************************)
\* Python's  a or b
Or(a, b) == IF Truthy(a) THEN a ELSE b

\* Truthiness of a fileUrls / files value: a missing key (None) and {} are falsy.
MapTruthy(m) ==
    \/ m.kind = "list"
    \/ m.kind = "dict" /\ (m.pdf /= Absent \/ m.pptx /= Absent \/ m.other /= Absent)

\* line 218: gamma_result.get("fileUrls") or gamma_result.get("files") or {}
FileUrlsOf(gamma_result) ==
    IF MapTruthy(gamma_result.fileUrls) THEN gamma_result.fileUrls
    ELSE IF MapTruthy(gamma_result.files) THEN gamma_result.files
    ELSE Dict(Absent, Absent, Absent)

\* A variant that looks the configured export format up first.
FormatMapUrlByExportFormat(file_urls) ==
    IF Lower(GAMMA_EXPORT_FORMAT) = Str_pptx
    THEN Or(Get(file_urls.pptx), Get(file_urls.pdf))
    ELSE Or(Get(file_urls.pdf), Get(file_urls.pptx))

\* line 221: file_urls.get("pdf") or file_urls.get("pptx")
FormatMapUrl(file_urls) == Or(Get(file_urls.pdf), Get(file_urls.pptx))

\* A variant that consults the format map before exportUrl.
ResolveFileUrlMapFirst(gamma_result) ==
    LET file_urls == FileUrlsOf(gamma_result)
        first  == IF file_urls.kind = "dict" THEN FormatMapUrl(file_urls) ELSE NoneVal
        second == IF Truthy(first) THEN first ELSE Get(gamma_result.exportUrl)
    IN  IF Truthy(second) THEN second
        ELSE Or(Get(gamma_result.pdfUrl), Get(gamma_result.pptxUrl))

\* lines 211-225: file_url as it stands at line 227
ResolveFileUrl(gamma_result) ==
    LET first     == Get(gamma_result.exportUrl)
        file_urls == FileUrlsOf(gamma_result)
        second    == IF Truthy(first) THEN first
                     ELSE IF file_urls.kind = "dict" THEN FormatMapUrl(file_urls)
                     ELSE first
    IN  IF Truthy(second) THEN second
        ELSE Or(Get(gamma_result.pdfUrl), Get(gamma_result.pptxUrl))

ArtifactBytes == <<"<artifact bytes>">>
DownloadOutcomes == { NetworkError, HttpText(403, HtmlText), HttpText(200, ArtifactBytes) }

\* lines 196-244: the requests it sent, and resp.content or the exception raised
download_gamma_file(gamma_result, outcome) ==
    LET file_url == ResolveFileUrl(gamma_result)
        sent == << [method |-> "GET", url |-> file_url, outcome |-> outcome] >>
        Raise(n, e) == [net |-> n, raised |-> TRUE, error |-> e, content |-> EmptyStr]
    IN  IF ~Truthy(file_url)
        THEN Raise(<<>>, HTTPException(500,
                 "Gamma result completed but did not include exportUrl/file URL. Raw result: ",
                 gamma_result))
        ELSE IF outcome.raised
        THEN Raise(sent, HTTPException(502, "Failed to download file from Gamma: ", EmptyStr))
        ELSE IF ~Ok(outcome)
        THEN Raise(sent, HTTPException(outcome.status_code,
                                       "Failed to download file from Gamma: ", outcome.text))
        ELSE [net |-> sent, raised |-> FALSE, error |-> InternalServerError,
              content |-> outcome.text]

(***************************************************************************)
(* /api/beautify_status and /api/beautify_result                           *)
(***************************************************************************)
\* A variant that answers every probe after the first with the first probe's body.
StatusBodyCached(data) ==
    IF probes /= <<>> /\ probes[1].response.kind = "json"
    THEN probes[1].response.body
    ELSE [status   |-> IF data.status = Absent THEN Unknown ELSE data.status,
          gammaUrl |-> Get(data.gammaUrl)]

\* lines 340-343: data.get("status", "unknown") and data.get("gammaUrl")
StatusBody(data) ==
    [status   |-> IF data.status = Absent THEN Unknown ELSE data.status,
     gammaUrl |-> Get(data.gammaUrl)]

\* lines 333-343
BeautifyStatus(generationId, outcome) ==
    LET got == get_gamma_generation(generationId, outcome)
    IN  IF got.raised THEN Served(got.net, got.error)
        ELSE IF ~got.data.is_dict THEN Served(got.net, InternalServerError)
        ELSE Served(got.net, JSONResponse(StatusBody(got.data.data)))

\* posixpath.splitext(p)[0]: p up to its last dot, when that dot comes after the
\* last "/" and after a character of the last component that is not a dot.
RECURSIVE RFind(_, _, _)
RFind(s, c, i) == IF i = 0 THEN 0 ELSE IF s[i] = c THEN i ELSE RFind(s, c, i - 1)

SplitExtRoot(p) ==
    LET sepIndex == RFind(p, "/", Len(p))
        dotIndex == RFind(p, ".", Len(p))
    IN  IF dotIndex > sepIndex /\ \E k \in (sepIndex + 1)..(dotIndex - 1) : p[k] /= "."
        THEN SubSeq(p, 1, dotIndex - 1)
        ELSE p

Presentation == <<"p", "r", "e", "s", "e", "n", "t", "a", "t", "i", "o", "n">>
GammaBeautified == <<"_", "g", "a", "m", "m", "a", "_", "b", "e", "a", "u", "t", "i", "f",
                     "i", "e", "d", ".">>                        \* "_gamma_beautified."
PdfMediaType  == "application/pdf"
PptxMediaType == "application/vnd.openxmlformats-officedocument.presentationml.presentation"

\* The filename query parameter: not given, empty, or a name.
FilenameHints ==
    { NoneVal, EmptyStr,
      <<"d", ".", "p", "p", "t", "x">>,
      <<".", "d">>,
      <<"a", ".", "b", "/", "c">> }

\* A variant that rejects a failed generation only.
NotCompletedOnlyFailed(status) == status = Failed

\* line 357
NotCompleted(status) == status /= Completed

\* line 365
BaseName(filename) == SplitExtRoot(Or(filename, Presentation))

\* line 366
Ext == IF Lower(GAMMA_EXPORT_FORMAT) = Str_pdf THEN Str_pdf ELSE Str_pptx

\* A variant that always answers with the PDF media type.
MediaTypeAlwaysPdf(ext) == PdfMediaType

\* lines 369-373
MediaType(ext) == IF ext = Str_pdf THEN PdfMediaType ELSE PptxMediaType

StreamingResponse(content, media_type, output_filename) ==
    [kind |-> "stream", status_code |-> 200, content |-> content,
     media_type |-> media_type, filename |-> output_filename]

\* lines 346-381
BeautifyResult(generationId, filename, outcome, download) ==
    LET got    == get_gamma_generation(generationId, outcome)
        data   == got.data.data
        status == Get(data.status)
        file   == download_gamma_file(data, download)
    IN  IF got.raised THEN Served(got.net, got.error)
        ELSE IF ~got.data.is_dict THEN Served(got.net, InternalServerError)
        ELSE IF NotCompleted(status)
        THEN Served(got.net,
                    HTTPException(400, "Gamma generation is not completed yet. Current status: ",
                                  status))
        ELSE IF file.raised THEN Served(got.net \o file.net, file.error)
        ELSE Served(got.net \o file.net,
                    StreamingResponse(file.content, MediaType(Ext),
                                      BaseName(filename) \o GammaBeautified \o Ext))

beautify_status ==
    /\ pc = "idle"
    /\ \E outcome \in StatusOutcomes :
          /\ request' = [op |-> "beautify_status", generationId |-> GenId]
          /\ LET served == BeautifyStatus(GenId, outcome)
             IN  net' = served.net /\ response' = served.response
    /\ pc' = "done"
    /\ UNCHANGED Unserved

beautify_result ==
    /\ pc = "idle"
    /\ \E filename \in FilenameHints, outcome \in StatusOutcomes, download \in DownloadOutcomes :
          /\ request' = [op |-> "beautify_result", generationId |-> GenId, filename |-> filename]
          /\ LET served == BeautifyResult(GenId, filename, outcome, download)
             IN  net' = served.net /\ response' = served.response
    /\ pc' = "done"
    /\ UNCHANGED Unserved

\* The response is sent; the handler's locals are gone and nothing is kept.
Respond ==
    /\ pc = "done"
    /\ pc' = "idle"
    /\ request' = NoRequest
    /\ net' = <<>>
    /\ response' = NoResponse
    /\ UNCHANGED <<GAMMA_API_KEY, GAMMA_TEMPLATE_ID, GAMMA_EXPORT_FORMAT,
                   file_bytes, parsed, probes>>

Init ==
    /\ GAMMA_API_KEY \in ApiKeyChoices
    /\ GAMMA_TEMPLATE_ID \in TemplateIdChoices
    /\ GAMMA_EXPORT_FORMAT \in FormatChoices
    /\ pc = "idle"
    /\ request = NoRequest
    /\ net = <<>>
    /\ response = NoResponse
    /\ file_bytes = Malformed
    /\ parsed = NotParsed
    /\ probes = <<>>

Next ==
    \/ health_check
    \/ parse_ppt
    \/ beautify_start
    \/ beautify_status
    \/ beautify_result
    \/ beautify_legacy
    \/ Respond

Spec == Init /\ [][Next]_vars

(***************************************************************************)
(* A client polling /api/beautify_status for one generation: each answer   *)
(* it receives is appended to probes, then it polls again.                 *)
(***************************************************************************)
Bare(status, gammaUrl) ==
    [status |-> status, gammaUrl |-> gammaUrl, exportUrl |-> Absent, fileUrls |-> NoMap,
     files |-> NoMap, pdfUrl |-> Absent, pptxUrl |-> Absent]

PollOutcomes ==
    { NetworkError,
      HttpText(404, HtmlText),
      HttpJsonDict(200, RecordText, Bare(Absent, GammaUrl)),
      HttpJsonDict(200, RecordText, Bare(Pending, Absent)),
      HttpJsonDict(200, RecordText, Bare(Failed, GammaUrl)),
      HttpJsonDict(200, RecordText, Bare(Completed, GammaUrl)) }

InitProbe ==
    /\ GAMMA_API_KEY \in ApiKeyChoices
    /\ GAMMA_TEMPLATE_ID = TemplateId
    /\ GAMMA_EXPORT_FORMAT = Str_pdf
    /\ pc = "idle"
    /\ request = NoRequest
    /\ net = <<>>
    /\ response = NoResponse
    /\ file_bytes = Malformed
    /\ parsed = NotParsed
    /\ probes = <<>>

probe_status ==
    /\ pc = "idle"
    /\ Len(probes) < MaxProbes
    /\ \E outcome \in PollOutcomes :
          /\ request' = [op |-> "beautify_status", generationId |-> GenId]
          /\ LET served == BeautifyStatus(GenId, outcome)
             IN  net' = served.net /\ response' = served.response
    /\ pc' = "done"
    /\ UNCHANGED Unserved

poll_again ==
    /\ pc = "done"
    /\ pc' = "idle"
    /\ probes' = Append(probes, [net |-> net, response |-> response])
    /\ request' = NoRequest
    /\ net' = <<>>
    /\ response' = NoResponse
    /\ UNCHANGED <<GAMMA_API_KEY, GAMMA_TEMPLATE_ID, GAMMA_EXPORT_FORMAT, file_bytes, parsed>>

NextProbe == probe_status \/ poll_again

SpecProbe == InitProbe /\ [][NextProbe]_vars

(***************************************************************************)
(* Claims about the extractor (checked under SpecExtract).                 *)
(***************************************************************************)
Extracted == pc = "done" /\ ~parsed.raised

\* A shape contributes a text block iff it has a text frame and one of its
\* paragraphs holds a character that is not whitespace.
BearsText(shape) ==
    /\ shape.has_text_frame
    /\ \E i \in 1..Len(shape.paragraphs) :
          \E j \in 1..Len(shape.paragraphs[i]) : shape.paragraphs[i][j] \notin Whitespace

BlockCount(slide) == Cardinality({i \in 1..Len(slide) : BearsText(slide[i])})

\* C3: a well-formed document of N slides extracts to exactly N entries, the i-th
\* with index i and with one block per text-bearing shape of the i-th slide, so a
\* slide without text is kept as an entry with an empty block list.
C3_SlideEntriesContiguous ==
    Extracted =>
        /\ Len(parsed.slides) = Len(file_bytes.slides)
        /\ \A i \in 1..Len(parsed.slides) :
              /\ parsed.slides[i].index = i
              /\ Len(parsed.slides[i].shapes) = BlockCount(file_bytes.slides[i])
              /\ \A b \in 1..Len(parsed.slides[i].shapes) :
                    parsed.slides[i].shapes[b].text /= EmptyStr

\* A two-slide document whose first slide has no text and whose second has some.
C3_Witness ==
    /\ Extracted
    /\ Len(file_bytes.slides) = 2
    /\ Len(file_bytes.slides[1]) > 0
    /\ BlockCount(file_bytes.slides[1]) = 0
    /\ BlockCount(file_bytes.slides[2]) > 0
    /\ parsed.slides[1].shapes = <<>>
    /\ parsed.slides[2].index = 2

\* The rendering of one extracted slide: its header, then its block texts joined
\* by newlines, or the placeholder when it has none.
Rendering(entry) ==
    SlideHeader \o IntToStr(entry.index) \o HeaderEnd \o
        (IF entry.shapes = <<>> THEN NoContent
         ELSE Join(Newline, [b \in 1..Len(entry.shapes) |-> entry.shapes[b].text]))

\* C4: for a document of N >= 1 slides, splitting the outline text on the
\* delimiter yields exactly N sections, the i-th being the rendering of slide i;
\* none is empty and none merges or cuts a slide.
C4_OutlineSegmentable ==
    (Extracted /\ Len(parsed.slides) >= 1) =>
        LET sections == Split(parsed.outline_text, Delimiter)
        IN  /\ Len(sections) = Len(parsed.slides)
            /\ \A i \in 1..Len(sections) :
                  /\ sections[i] = Rendering(parsed.slides[i])
                  /\ sections[i] /= EmptyStr

(***************************************************************************)
(* Claims about the routes (checked under Spec).                           *)
(***************************************************************************)
Present(v) == v /= Absent /\ v /= NoneVal /\ v /= EmptyStr

IsStatusFetch(call) == call.method = "GET" /\ call.url = StatusUrl(GenId)
IsDownload(call)    == call.method = "GET" /\ call.url /= StatusUrl(GenId)
IsCreate(call)      == call.method = "POST"

StatusFetches == SelectSeq(net, IsStatusFetch)
Downloads     == SelectSeq(net, IsDownload)

Is2xx(code) == code >= 200 /\ code < 300
Is4xx5xx(code) == code >= 400 /\ code < 600

ResultDone == pc = "done" /\ request.op = "beautify_result"

\* The result route fetched a generation record (a JSON object).
FetchedRecord ==
    /\ ResultDone
    /\ Len(net) >= 1
    /\ IsStatusFetch(net[1])
    /\ ~net[1].outcome.raised
    /\ Is2xx(net[1].outcome.status_code)
    /\ net[1].outcome.json
    /\ net[1].outcome.is_dict

TheRecord == net[1].outcome.data

\* ... and the record says completed, so the artifact is resolved from it.
Resolving == FetchedRecord /\ TheRecord.status = Completed

UsedUrl(u) == Len(Downloads) = 1 /\ Downloads[1].url = u

\* The nested format map of a record: fileUrls, or files when fileUrls is
\* missing or empty; it offers URLs only when it is a dict.
NonEmptyValue(m) ==
    m.kind = "list" \/ (m.kind = "dict" /\ \E k \in {"pdf", "pptx", "other"} : m[k] /= Absent)
FormatMap(r) == IF NonEmptyValue(r.fileUrls) THEN r.fileUrls ELSE r.files
FormatMapOffers(r) ==
    IF FormatMap(r).kind = "dict"
    THEN {FormatMap(r)[k] : k \in {k \in {"pdf", "pptx"} : Present(FormatMap(r)[k])}}
    ELSE {}

\* C1: the artifact URL is resolved by a strict ordered fallback: exportUrl when
\* it holds a URL, else a URL of the nested format map, else pdfUrl, else
\* pptxUrl; when none holds a URL the request fails with a 500 that carries the
\* raw record and no download is issued.
C1_OrderedFallback ==
    Resolving =>
        LET r == TheRecord
        IN  IF Present(r.exportUrl) THEN UsedUrl(r.exportUrl)
            ELSE IF FormatMapOffers(r) /= {} THEN \E u \in FormatMapOffers(r) : UsedUrl(u)
            ELSE IF Present(r.pdfUrl) THEN UsedUrl(r.pdfUrl)
            ELSE IF Present(r.pptxUrl) THEN UsedUrl(r.pptxUrl)
            ELSE /\ Downloads = <<>>
                 /\ response.kind = "error"
                 /\ response.status_code = 500
                 /\ response.detail.arg = r

\* A record holding exportUrl, a format map of both formats and both flat
\* fields: the download went to exportUrl.
C1_Witness ==
    /\ Resolving
    /\ TheRecord.exportUrl = ExportUrl
    /\ TheRecord.fileUrls = Dict(MapPdfUrl, MapPptxUrl, Absent)
    /\ TheRecord.pdfUrl = FlatPdfUrl
    /\ TheRecord.pptxUrl = FlatPptxUrl
    /\ UsedUrl(ExportUrl)

\* The format-map tier decides: no exportUrl, and the format map is a dict.
MapTier == Resolving /\ ~Present(TheRecord.exportUrl) /\ FormatMap(TheRecord).kind = "dict"

\* C2 as claimed: in the format-map tier the configured export format's entry is
\* used first, the other format's entry only when the configured one is absent.
C2_KeyedByConfiguredFormat ==
    MapTier =>
        LET m == FormatMap(TheRecord)
            configured ==
                IF GAMMA_EXPORT_FORMAT = Str_pptx THEN m.pptx ELSE m.pdf
            alternate ==
                IF GAMMA_EXPORT_FORMAT = Str_pptx THEN m.pdf ELSE m.pptx
        IN  /\ Present(configured) => UsedUrl(configured)
            /\ (~Present(configured) /\ Present(alternate)) => UsedUrl(alternate)

\* C2 amended: in the format-map tier the lookup ignores the configured export
\* format: the pdf entry is used whenever present, the pptx entry only when the
\* pdf entry is absent.
C2_PdfEntryFirst ==
    MapTier =>
        LET m == FormatMap(TheRecord)
        IN  /\ Present(m.pdf) => UsedUrl(m.pdf)
            /\ (~Present(m.pdf) /\ Present(m.pptx)) => UsedUrl(m.pptx)

\* Configured for pptx, a map of both formats: the pdf URL was downloaded.
C2_Witness ==
    /\ MapTier
    /\ GAMMA_EXPORT_FORMAT = Str_pptx
    /\ FormatMap(TheRecord) = Dict(MapPdfUrl, MapPptxUrl, Absent)
    /\ UsedUrl(MapPdfUrl)

NotCompletedYet(status) ==
    /\ response.kind = "error"
    /\ response.status_code = 400
    /\ response.detail.msg = "Gamma generation is not completed yet. Current status: "
    /\ response.detail.arg = status

IsTimeoutError == response.kind = "error" /\ response.status_code \in {408, 504}

\* C5 as claimed: the operation that waits for a job ends only at a terminal
\* status: at completed it goes on with the record, at failed it raises without
\* fetching again, and after any other status it fetches again unless the
\* deadline passed, which raises a timeout.
C5_BlockingAwait ==
    FetchedRecord =>
        LET status == TheRecord.status
        IN  /\ status = Completed => ~NotCompletedYet(Completed)
            /\ status = Failed => (response.kind = "error" /\ Len(StatusFetches) = 1)
            /\ status \notin {Completed, Failed} =>
                  (Len(StatusFetches) >= 2 \/ IsTimeoutError)

\* C5 amended: the result operation fetches the status once and never waits or
\* fetches again; that one status decides its outcome: completed goes on to the
\* artifact, failed and every other status (pending too) raise the 400 that
\* reports the status, at once.
C5_SingleFetchDecides ==
    (ResultDone /\ Truthy(GAMMA_API_KEY)) =>
        /\ Len(StatusFetches) = 1
        /\ IsStatusFetch(net[1])
        /\ FetchedRecord =>
              LET status == TheRecord.status
              IN  /\ status = Completed => ~NotCompletedYet(Completed)
                  /\ status /= Completed =>
                        /\ NotCompletedYet(IF status = Absent THEN NoneVal ELSE status)
                        /\ Len(net) = 1

\* A pending job: one fetch, answered at once with the 400.
C5_Witness ==
    /\ FetchedRecord
    /\ TheRecord.status = Pending
    /\ Len(net) = 1
    /\ NotCompletedYet(Pending)

StartDone == pc = "done" /\ request.op = "beautify_start"

\* The create request was sent and the upstream answered it.
CreateAnswered ==
    /\ StartDone
    /\ Len(net) = 1
    /\ IsCreate(net[1])
    /\ ~net[1].outcome.raised

\* C6: the upstream's answer decides the creation call: a 2xx whose JSON body
\* holds a job identifier returns that identifier; a 4xx/5xx raises an error
\* with the upstream's status code and body; a 2xx whose body does not parse or
\* holds no identifier raises an error and returns no identifier.
C6_CreateOutcome ==
    CreateAnswered =>
        LET o == net[1].outcome
            hasId == o.json /\ o.is_dict /\ Present(o.data.generationId)
        IN  /\ (Is2xx(o.status_code) /\ hasId) =>
                  /\ response.kind = "json"
                  /\ response.body.generationId = o.data.generationId
            /\ Is4xx5xx(o.status_code) =>
                  /\ response.kind = "error"
                  /\ response.status_code = o.status_code
                  /\ response.detail.arg = o.text
            /\ (Is2xx(o.status_code) /\ ~hasId) =>
                  /\ response.kind = "error"
                  /\ response.status_code >= 400

\* A 201 with an identifier: the identifier is returned.
C6_Witness ==
    /\ CreateAnswered
    /\ net[1].outcome.status_code = 201
    /\ net[1].outcome.json
    /\ net[1].outcome.is_dict
    /\ net[1].outcome.data.generationId = GenId
    /\ response.kind = "json"
    /\ response.body.generationId = GenId

Streamed == ResultDone /\ response.kind = "stream"

Beautified == <<"_", "b", "e", "a", "u", "t", "i", "f", "i", "e", "d", ".">>
HintOrDefault == IF Present(request.filename) THEN request.filename ELSE Presentation

\* ext as the claim has it
ExpectedExt == IF Lower(GAMMA_EXPORT_FORMAT) = Str_pdf THEN Str_pdf ELSE Str_pptx

\* A name has an extension when a dot of its last path component follows a
\* character of that component that is not a dot.
HasExtension(hint) ==
    \E k \in 1..Len(hint) :
        /\ hint[k] = "."
        /\ \A j \in k..Len(hint) : hint[j] /= "/"
        /\ \E j \in 1..(k - 1) :
              hint[j] /= "." /\ \A i \in j..k : hint[i] /= "/"

\* name is hint with its extension removed: hint itself when it has none, else
\* hint up to the last dot.
IsExtensionRemoved(name, hint) ==
    /\ Len(name) <= Len(hint)
    /\ SubSeq(hint, 1, Len(name)) = name
    /\ LET removed == SubSeq(hint, Len(name) + 1, Len(hint))
       IN  IF HasExtension(hint)
           THEN /\ removed /= <<>>
                /\ removed[1] = "."
                /\ \A k \in 2..Len(removed) : removed[k] /= "."
           ELSE removed = <<>>

\* C7 as claimed: the suggested filename is {baseName}_beautified.{ext}.
C7_FilenameBeautified ==
    Streamed =>
        /\ EndsWith(response.filename, Beautified \o ExpectedExt)
        /\ IsExtensionRemoved(
              SubSeq(response.filename, 1,
                     Len(response.filename) - Len(Beautified \o ExpectedExt)),
              HintOrDefault)

\* C7 amended: the suggested filename is {baseName}_gamma_beautified.{ext},
\* baseName the hint without its extension (the default name without a hint),
\* ext pdf when the configured format is pdf in any letter case and pptx
\* otherwise; the media type is the PDF one exactly when ext is pdf.
C7_FilenameGammaBeautified ==
    Streamed =>
        /\ EndsWith(response.filename, GammaBeautified \o ExpectedExt)
        /\ IsExtensionRemoved(
              SubSeq(response.filename, 1,
                     Len(response.filename) - Len(GammaBeautified \o ExpectedExt)),
              HintOrDefault)
        /\ response.media_type = PdfMediaType <=> EndsWith(response.filename, <<".">> \o Str_pdf)
        /\ response.media_type = PptxMediaType <=> EndsWith(response.filename, <<".">> \o Str_pptx)

\* Hint "d.pptx", configured for pptx: "d_gamma_beautified.pptx" with the
\* presentation media type.
C7_Witness ==
    /\ Streamed
    /\ request.filename = <<"d", ".", "p", "p", "t", "x">>
    /\ GAMMA_EXPORT_FORMAT = Str_pptx
    /\ response.filename = <<"d">> \o GammaBeautified \o Str_pptx
    /\ response.media_type = PptxMediaType

\* C9: the result operation resolves and downloads an artifact only after the
\* status fetch of the same request returned completed; for every other fetched
\* status it raises the error reporting that status and downloads nothing; a
\* successful request is one status fetch followed by one download.
C9_DownloadOnlyAfterCompleted ==
    ResultDone =>
        /\ Downloads /= <<>> => (FetchedRecord /\ TheRecord.status = Completed)
        /\ (FetchedRecord /\ TheRecord.status /= Completed) =>
              /\ NotCompletedYet(IF TheRecord.status = Absent THEN NoneVal
                                 ELSE TheRecord.status)
              /\ Downloads = <<>>
        /\ response.kind = "stream" =>
              /\ Len(net) = 2
              /\ IsStatusFetch(net[1])
              /\ IsDownload(net[2])
              /\ ~net[2].outcome.raised
              /\ response.content = net[2].outcome.text

C9_Witness ==
    /\ Streamed
    /\ Len(net) = 2
    /\ TheRecord.status = Completed
    /\ IsDownload(net[2])
    /\ response.content = ArtifactBytes

ValidUpload ==
    /\ EndsWith(Lower(request.filename), DotPptx)
    /\ request.file.container

ConfigError == response.kind = "error" /\ response.status_code = 500 /\ net = <<>>

\* C10: with the API credential absent (create, status fetch) or the template
\* identifier absent (create), the operation fails with a 500 and sends nothing
\* to the external service; a malformed document is answered with a 400.
C10_ConfigErrorBeforeNetwork ==
    pc = "done" =>
        /\ (request.op = "beautify_start" /\ ValidUpload
              /\ (~Present(GAMMA_API_KEY) \/ ~Present(GAMMA_TEMPLATE_ID))) => ConfigError
        /\ (request.op \in {"beautify_status", "beautify_result"}
              /\ ~Present(GAMMA_API_KEY)) => ConfigError
        /\ (request.op \in {"parse_ppt", "beautify_start"}
              /\ ~request.file.container) =>
                 (response.kind = "error" /\ response.status_code = 400 /\ net = <<>>)

\* The credential is set, the template identifier is not: create fails, unsent.
C10_Witness ==
    /\ StartDone
    /\ ValidUpload
    /\ Present(GAMMA_API_KEY)
    /\ ~Present(GAMMA_TEMPLATE_ID)
    /\ ConfigError

(***************************************************************************)
(* The claim about the status probe (checked under SpecProbe).             *)
(***************************************************************************)
\* What a probe that fetched record r must answer.
AnswersRecord(resp, r) ==
    /\ resp.kind = "json"
    /\ resp.body.status = (IF r.status = Absent THEN Unknown ELSE r.status)
    /\ resp.body.gammaUrl = (IF r.gammaUrl = Absent THEN NoneVal ELSE r.gammaUrl)

SingleStep(n, resp) ==
    /\ Len(n) = (IF Present(GAMMA_API_KEY) THEN 1 ELSE 0)
    /\ \A i \in 1..Len(n) : IsStatusFetch(n[i])
    /\ (Len(n) = 1 /\ ~n[1].outcome.raised /\ Is2xx(n[1].outcome.status_code)
          /\ n[1].outcome.json /\ n[1].outcome.is_dict) =>
             AnswersRecord(resp, n[1].outcome.data)

\* C8: every probe is one step: with the credential configured it performs
\* exactly one status fetch and answers with the status token and view URL of
\* the record that fetch returned, whatever the earlier probes fetched.
C8_ProbeSingleFetch ==
    /\ \A i \in 1..Len(probes) : SingleStep(probes[i].net, probes[i].response)
    /\ (pc = "done" /\ request.op = "beautify_status") => SingleStep(net, response)

\* A pending probe followed by a completed one, each answered from its own fetch.
C8_Witness ==
    /\ Len(probes) >= 2
    /\ Len(probes[1].net) = 1
    /\ probes[1].response.kind = "json"
    /\ probes[1].response.body.status = Pending
    /\ probes[1].response.body.gammaUrl = NoneVal
    /\ probes[2].response.kind = "json"
    /\ probes[2].response.body.status = Completed
    /\ probes[2].response.body.gammaUrl = GammaUrl

====
